---- MODULE Spec2Model ----
(***************************************************************************)
(* Model of rickstaa/top-issues-action: the ranking, reconciliation and    *)
(* labelling logic of src/src/helpers.ts and the run() pipeline of         *)
(* src/src/main.ts.                                                        *)
(*                                                                         *)
(* An issue or pull request (IssueNode, types.ts) is the record            *)
(*   [number, title, positive, negative, labels]                           *)
(* where labels is the sequence labels.nodes[..].name; a TopIssueNode has  *)
(* the additional field totalReactions.                                    *)
(***************************************************************************)
EXTENDS Integers, Sequences, FiniteSets

\* ------------------------------------------------------------------------
\* Bounds and input domains
\* ------------------------------------------------------------------------

\* Longest list handed to a pure helper in the exhaustive part of SpecPure.
MaxLen == 2

\* Label names (action.yml defaults, shortened).
DASHBOARD_LABEL == "dashboard"
OtherLabel == "other"

\* (positive, negative) reaction counts an input item may carry.
ReactionPairs == {<<0, 0>>, <<0, 1>>, <<1, 0>>, <<1, 1>>, <<2, 0>>}

\* labels.nodes of an input item of the ranking helper.
RankLabelSeqs ==
  {<<>>, <<OtherLabel>>, <<DASHBOARD_LABEL>>, <<DASHBOARD_LABEL, OtherLabel>>}

IssueNode(n, t, p, q, ls) ==
  [number |-> n, title |-> t, positive |-> p, negative |-> q, labels |-> ls]

\* ------------------------------------------------------------------------
\* Generic sequence helpers (JavaScript Array methods)
\* ------------------------------------------------------------------------

Min(a, b) == IF a < b THEN a ELSE b
Max(a, b) == IF a > b THEN a ELSE b

Range(s) == {s[i] : i \in DOMAIN s}

\* Array.prototype.slice(0, end): a negative end counts from the back.
SliceFromStart(s, end) ==
  LET n == Len(s)
      e == IF end < 0 THEN Max(n + end, 0) ELSE Min(end, n)
  IN SubSeq(s, 1, e)

\* labels.nodes.some(lab => lab.name === label)
HasLabel(issue, label) == \E k \in DOMAIN issue.labels : issue.labels[k] = label

\* ------------------------------------------------------------------------
\* helpers.ts: pure helpers
\* ------------------------------------------------------------------------

issuesWithLabel(issues, label) ==
  SelectSeq(issues, LAMBDA issue : HasLabel(issue, label))

\* A count that never subtracts.
getReactionsCountPositiveOnly(issue, subtractNegative) == issue.positive

getReactionsCount(issue, subtractNegative) ==
  IF subtractNegative THEN issue.positive - issue.negative ELSE issue.positive

addTotalReactions(issues, subtractNegative) ==
  [i \in DOMAIN issues |->
     [number |-> issues[i].number,
      title |-> issues[i].title,
      positive |-> issues[i].positive,
      negative |-> issues[i].negative,
      labels |-> issues[i].labels,
      totalReactions |-> getReactionsCount(issues[i], subtractNegative)]]

\* Remove the dashboard issue: keeps an item that has no label at all or that
\* has some label different from dashboardLabel.
KeepNonDashboard(issue, dashboardLabel) ==
  \/ Len(issue.labels) = 0
  \/ \E k \in DOMAIN issue.labels : issue.labels[k] # dashboardLabel

\* Insertion of x into a list sorted by descending totalReactions, behind
\* every element that does not compare after it (b - a <= 0 keeps a first).
InsertUnstable(sorted, x) ==
  LET before == SelectSeq(sorted, LAMBDA y : y.totalReactions > x.totalReactions)
      after == SelectSeq(sorted, LAMBDA y : y.totalReactions <= x.totalReactions)
  IN before \o <<x>> \o after

InsertByScore(sorted, x) ==
  LET before == SelectSeq(sorted, LAMBDA y : y.totalReactions >= x.totalReactions)
      after == SelectSeq(sorted, LAMBDA y : y.totalReactions < x.totalReactions)
  IN before \o <<x>> \o after

\* Array.prototype.sort((a, b) => b.totalReactions - a.totalReactions):
\* a stable sort (ECMAScript 2019, the node16 runtime of action.yml).
RECURSIVE SortByScoreDesc(_)
SortByScoreDesc(s) ==
  IF s = <<>> THEN <<>>
  ELSE InsertByScore(SortByScoreDesc(SubSeq(s, 1, Len(s) - 1)), s[Len(s)])

\* A floor that lets a zero score through.
KeepNonNegativeScore(issue) == issue.totalReactions >= 0

\* issue => issue.totalReactions > 0
KeepPositiveScore(issue) == issue.totalReactions > 0

\* A ranking that skips the number filter.
getTopIssuesUnfiltered(issues, size, subtractNegative, dashboardLabel, filter) ==
  LET t1 == addTotalReactions(issues, subtractNegative)
      t2 == SelectSeq(t1, LAMBDA issue : KeepNonDashboard(issue, dashboardLabel))
      t4 == SelectSeq(t2, KeepPositiveScore)
      t5 == SortByScoreDesc(t4)
  IN SliceFromStart(t5, size)

getTopIssues(issues, size, subtractNegative, dashboardLabel, filter) ==
  LET t1 == addTotalReactions(issues, subtractNegative)
      t2 == SelectSeq(t1, LAMBDA issue : KeepNonDashboard(issue, dashboardLabel))
      t3 == IF Len(filter) > 0
            THEN SelectSeq(t2, LAMBDA issue : issue.number \notin Range(filter))
            ELSE t2
      t4 == SelectSeq(t3, KeepPositiveScore)
      t5 == SortByScoreDesc(t4)
  IN SliceFromStart(t5, size)

\* Difference by object equality instead of by number.
DifferenceByIdentity(issuesOne, issuesTwo) ==
  IF Len(issuesOne) = 0 THEN issuesTwo
  ELSE IF Len(issuesTwo) = 0 THEN issuesOne
  ELSE SelectSeq(issuesOne, LAMBDA x : \A k \in DOMAIN issuesTwo : x # issuesTwo[k])

\* Plain difference, without the empty-list shortcuts.
DifferenceNoShortcut(issuesOne, issuesTwo) ==
  SelectSeq(issuesOne,
    LAMBDA x : ~(\E k \in DOMAIN issuesTwo : x.number = issuesTwo[k].number))

getIssuesDifference(issuesOne, issuesTwo) ==
  IF Len(issuesOne) = 0 THEN issuesTwo
  ELSE IF Len(issuesTwo) = 0 THEN issuesOne
  ELSE SelectSeq(issuesOne,
         LAMBDA x : ~(\E k \in DOMAIN issuesTwo : x.number = issuesTwo[k].number))


\* ------------------------------------------------------------------------
\* helpers.ts: dashboard markdown
\* ------------------------------------------------------------------------

\* The markdown body is kept as the sequence of its parts.
Part(kind, text, label, idx, number, reactions) ==
  [kind |-> kind, text |-> text, label |-> label, idx |-> idx,
   number |-> number, reactions |-> reactions]

HeaderPart(header) == Part("header", header, "", 0, 0, <<>>)
HeadingPart(text, label) == Part("heading", text, label, 0, 0, <<>>)
FallbackPart == Part("fallback", "> Could not find any top issues :zzz:.", "", 0, 0, <<>>)
FooterPart(footer) == Part("footer", footer, "", 0, 0, <<>>)

\* `${idx + 1}. #${issue.number}` with the reaction count when shown.
ItemPart(idx, issue, showTotalReactions) ==
  Part("item", "", "", idx, issue.number,
       IF showTotalReactions THEN <<issue.totalReactions>> ELSE <<>>)

\* A section that keeps its heading when the list is empty.
DashboardSectionAlways(list, text, label, showTotalReactions) ==
  <<HeadingPart(text, label)>>
  \o [i \in DOMAIN list |-> ItemPart(i, list[i], showTotalReactions)]

\* A section that lists its first item only.
DashboardSectionFirstOnly(list, text, label, showTotalReactions) ==
  IF Len(list) > 0
  THEN <<HeadingPart(text, label), ItemPart(1, list[1], showTotalReactions)>>
  ELSE <<>>

DashboardSection(list, text, label, showTotalReactions) ==
  IF Len(list) > 0
  THEN <<HeadingPart(text, label)>>
       \o [i \in DOMAIN list |-> ItemPart(i, list[i], showTotalReactions)]
  ELSE <<>>

\* A rendering that puts the pull requests before the bugs.
createDashboardMarkdownPRsFirst(topIssues, topBugs, topFeatures, topPRs, topCustom, topCustomLabel, topCustomPRs, topCustomPRsLabel, header, footer, showTotalReactions) ==
  LET dashboard_issues_body ==
        DashboardSection(topIssues, "## Top issues", "", showTotalReactions)
        \o DashboardSection(topPRs, "## Top PRs", "", showTotalReactions)
        \o DashboardSection(topBugs, "## Top bugs", "", showTotalReactions)
        \o DashboardSection(topFeatures, "## Top feature requests", "",
                            showTotalReactions)
        \o DashboardSection(topCustom, "## Top '' issues", topCustomLabel,
                            showTotalReactions)
        \o DashboardSection(topCustomPRs, "## Top '' pull requests",
                            topCustomPRsLabel, showTotalReactions)
  IN <<HeaderPart(header)>>
     \o (IF dashboard_issues_body # <<>>
         THEN dashboard_issues_body
         ELSE <<HeadingPart("## Top issues", ""), FallbackPart>>)
     \o (IF footer # "" THEN <<FooterPart(footer)>> ELSE <<>>)

createDashboardMarkdown(topIssues, topBugs, topFeatures, topPRs, topCustom, topCustomLabel, topCustomPRs, topCustomPRsLabel, header, footer, showTotalReactions) ==
  LET dashboard_issues_body ==
        DashboardSection(topIssues, "## Top issues", "", showTotalReactions)
        \o DashboardSection(topBugs, "## Top bugs", "", showTotalReactions)
        \o DashboardSection(topFeatures, "## Top feature requests", "",
                            showTotalReactions)
        \o DashboardSection(topPRs, "## Top PRs", "", showTotalReactions)
        \o DashboardSection(topCustom, "## Top '' issues", topCustomLabel,
                            showTotalReactions)
        \o DashboardSection(topCustomPRs, "## Top '' pull requests",
                            topCustomPRsLabel, showTotalReactions)
  IN <<HeaderPart(header)>>
     \o (IF dashboard_issues_body # <<>>
         THEN dashboard_issues_body
         ELSE <<HeadingPart("## Top issues", ""), FallbackPart>>)
     \o (IF footer # "" THEN <<FooterPart(footer)>> ELSE <<>>)

\* ------------------------------------------------------------------------
\* main.ts: action inputs and the six categories of run()
\* ------------------------------------------------------------------------

\* Requests for one page of open issues / pull requests return this many
\* nodes (first: 100 in the GraphQL queries, scaled down).
PageSize == 1

\* Number of consecutive runs of the action on the same repository.
MaxRuns == 2

\* top_list_size of the modelled runs.
TOP_LIST_SIZE == 1

SUBTRACT_NEGATIVE == TRUE
FILTER == <<>>
DASHBOARD_SHOW_TOTAL_REACTIONS == TRUE
DASHBOARD_HEADER == "header"
DASHBOARD_FOOTER == "footer"
DASHBOARD_TITLE == "Top Issues Dashboard"
TOP_ISSUE_LABEL == "top-issue"
BUG_LABEL == "bug"
TOP_BUG_LABEL == "top-bug"
FEATURE_LABEL == "enhancement"
TOP_FEATURE_LABEL == "top-feature"
TOP_PULL_REQUEST_LABEL == "top-pull-request"
TOP_CUSTOM_LABEL == "top-custom"
TOP_CUSTOM_PULL_REQUESTS_LABEL == "top-custom-pull-request"
CustomLabelName == "ci"
CustomPRsLabelName == "themes"

\* The categories in the order run() processes them.
CatOrder == <<"issues", "bugs", "features", "prs", "custom", "customPRs">>
Cats == Range(CatOrder)
PRCats == {"prs", "customPRs"}

TopLabel(c) ==
  CASE c = "issues" -> TOP_ISSUE_LABEL
    [] c = "bugs" -> TOP_BUG_LABEL
    [] c = "features" -> TOP_FEATURE_LABEL
    [] c = "prs" -> TOP_PULL_REQUEST_LABEL
    [] c = "custom" -> TOP_CUSTOM_LABEL
    [] c = "customPRs" -> TOP_CUSTOM_PULL_REQUESTS_LABEL

\* The label of GitHub's label list every label name is ordered by.
LabelOrder ==
  <<DASHBOARD_LABEL, TOP_ISSUE_LABEL, BUG_LABEL, TOP_BUG_LABEL, FEATURE_LABEL,
    TOP_FEATURE_LABEL, TOP_PULL_REQUEST_LABEL, CustomLabelName, TOP_CUSTOM_LABEL,
    CustomPRsLabelName, TOP_CUSTOM_PULL_REQUESTS_LABEL, OtherLabel>>

\* An item as the repository holds it: labels is the set of attached labels.
RepoItem(n, t, p, q, ls) ==
  [number |-> n, title |-> t, positive |-> p, negative |-> q, labels |-> ls]

\* The node a GraphQL page returns for a repository item.
ToNode(item) ==
  IssueNode(item.number, item.title, item.positive, item.negative,
            SelectSeq(LabelOrder, LAMBDA l : l \in item.labels))

Request(op, number, label) == [op |-> op, number |-> number, label |-> label]

\* A message handed to setFailed: its text with the item number and the label
\* name it interpolates (0 and "" when it has none).
Message(text, number, label) == [text |-> text, number |-> number, label |-> label]

\* ------------------------------------------------------------------------
\* State
\* ------------------------------------------------------------------------

VARIABLES
  call,            \* SpecPure: the helper call under test, [op |-> ..., arguments]
  ret,             \* SpecPure: [done |-> BOOLEAN, value |-> the helper's result]
  cfg,             \* the action inputs read at module load (main.ts:25-72)
  repoIssues,      \* GitHub: the open issues, newest first
  repoPRs,         \* GitHub: the open pull requests, newest first
  labelDefs,       \* GitHub: label name -> "absent" | "stale" | "ok"
  runs,            \* number of the current run
  pc,              \* position of run()
  cur,             \* index in CatOrder of the category being processed
  failure,         \* what made the run fail ("none" while it has not)
  issues,          \* run(): the fetched issues
  PRs,             \* run(): the fetched pull requests
  endCursor,       \* fetchOpenIssues / fetchOpenPRs: items consumed so far
  newTop,          \* run(): category -> its new top list
  labelled,        \* categories labelTopIssues has gone through
  toPrune,         \* labelTopIssues: category -> topIssuesToPrune
  dashboard_body,  \* run(): [rendered |-> BOOLEAN, body |-> the markdown]
  inflight,        \* label requests sent and not yet answered
  calls,           \* mutating requests this run has issued
  messages,        \* the setFailed messages of this run
  previous         \* the run before this one completed, all its requests applied

runVars ==
  <<cfg, repoIssues, repoPRs, labelDefs, runs, pc, cur, failure, issues, PRs,
    endCursor, newTop, labelled, toPrune, dashboard_body, inflight, calls,
    messages, previous>>

vars == <<call, ret, runVars>>

NotReturned == [done |-> FALSE, value |-> <<>>]

\* ------------------------------------------------------------------------
\* SpecPure: the pure helpers applied to bounded inputs
\* ------------------------------------------------------------------------

\* Lists of up to MaxLen items, numbered newest first (n, ..., 1).
RankItems(n) ==
  {IssueNode(n, "t", rp[1], rp[2], ls) : rp \in ReactionPairs, ls \in RankLabelSeqs}

RECURSIVE RankListsOfLen(_)
RankListsOfLen(n) ==
  IF n = 0 THEN {<<>>}
  ELSE {<<x>> \o s : x \in RankItems(n), s \in RankListsOfLen(n - 1)}

RankLists == UNION {RankListsOfLen(n) : n \in 0..MaxLen}

\* dummyIssues of __tests__/helpers.test.ts
dummyIssues ==
  <<IssueNode(1, "Title 1", 2, 0, <<"a-label">>),
    IssueNode(2, "Title 2", 3, 5, <<"another-label">>),
    IssueNode(3, "Title 3", 5, 1, <<"another-label">>),
    IssueNode(4, "Title 4", 0, 0, <<"another-label2">>),
    IssueNode(5, "Title 5", 1, 0, <<"another-label3">>)>>

\* differentDummyIssues of __tests__/helpers.test.ts
differentDummyIssues ==
  <<IssueNode(10, "Title 10", 2, 0, <<"a-label">>)>>
  \o SubSeq(dummyIssues, 1, 3)
  \o <<IssueNode(6, "Title 6", 5, 0, <<"another-label3">>)>>

RankSizes == -1 .. MaxLen

RankCall(is, sz, sub, dl, f) ==
  [op |-> "getTopIssues", issues |-> is, size |-> sz, subtractNegative |-> sub,
   dashboardLabel |-> dl, filter |-> f, issuesTwo |-> <<>>]

RankCalls ==
  {RankCall(is, sz, sub, DASHBOARD_LABEL, f) :
     is \in RankLists, sz \in RankSizes, sub \in BOOLEAN, f \in {<<>>, <<1>>}}
  \cup {RankCall(dummyIssues, sz, sub, "", <<>>) : sz \in {2, 10}, sub \in BOOLEAN}

\* Items of the two lists of getIssuesDifference: the same number may come
\* with different reaction counts and labels in the two lists.
DiffNumbers == {1, 2, 3}

DiffItems ==
  {IssueNode(n, "t", p, 0, <<OtherLabel>>) : n \in DiffNumbers, p \in {0, 1}}

DiffLists ==
  UNION {{s \in [1..n -> DiffItems] :
            \A i, j \in 1..n : i # j => s[i].number # s[j].number} : n \in 0..MaxLen}

DiffCall(a, b) ==
  [op |-> "getIssuesDifference", issues |-> a, size |-> 0,
   subtractNegative |-> FALSE, dashboardLabel |-> "", filter |-> <<>>,
   issuesTwo |-> b]

DiffCalls ==
  {DiffCall(a, b) : a \in DiffLists, b \in DiffLists}
  \cup {DiffCall(differentDummyIssues, dummyIssues),
        DiffCall(<<>>, dummyIssues), DiffCall(dummyIssues, <<>>)}

\* getTopIssues applied to its own result.
TwiceCalls ==
  {[RankCall(is, sz, sub, DASHBOARD_LABEL, f) EXCEPT !.op = "getTopIssuesTwice"] :
     is \in RankLists, sz \in RankSizes, sub \in BOOLEAN, f \in {<<>>, <<1>>}}

TotalCall(is, sub) ==
  [op |-> "addTotalReactions", issues |-> is, size |-> 0, subtractNegative |-> sub,
   dashboardLabel |-> "", filter |-> <<>>, issuesTwo |-> <<>>]

TotalCalls ==
  {TotalCall(is, sub) : is \in RankLists \cup {dummyIssues}, sub \in BOOLEAN}

\* A top item handed to createDashboardMarkdown.
TopItem(n, total) ==
  [number |-> n, title |-> "t", positive |-> total, negative |-> 0,
   labels |-> <<>>, totalReactions |-> total]

\* The k-th list argument of createDashboardMarkdown: empty, one item, and for
\* the first and last list two items; the items of list k are numbered 10k+1,
\* 10k+2.
DashListsOf(k) ==
  {<<>>, <<TopItem(10 * k + 1, 2)>>}
  \cup (IF k \in {1, 6} THEN {<<TopItem(10 * k + 1, 2), TopItem(10 * k + 2, 1)>>} ELSE {})

DashCall(ls, h, f, show) ==
  [op |-> "createDashboardMarkdown", lists |-> ls,
   topCustomLabel |-> CustomLabelName, topCustomPRsLabel |-> CustomPRsLabelName,
   header |-> h, footer |-> f, showTotalReactions |-> show]

DashCalls ==
  {DashCall(<<a, b, c, e, f, g>>, h, ft, show) :
     a \in DashListsOf(1), b \in DashListsOf(2), c \in DashListsOf(3),
     e \in DashListsOf(4), f \in DashListsOf(5), g \in DashListsOf(6),
     h \in {"", DASHBOARD_HEADER}, ft \in {"", DASHBOARD_FOOTER},
     show \in BOOLEAN}

NoBody == [rendered |-> FALSE, body |-> <<>>]

Config(E, dry, label, dashboard) ==
  [DRY_RUN |-> dry, LABEL |-> label, DASHBOARD |-> dashboard,
   TOP_ISSUES |-> "issues" \in E,
   TOP_BUGS |-> "bugs" \in E,
   TOP_FEATURES |-> "features" \in E,
   TOP_PULL_REQUESTS |-> "prs" \in E,
   CUSTOM_LABEL |-> IF "custom" \in E THEN CustomLabelName ELSE "",
   CUSTOM_PRS_LABEL |-> IF "customPRs" \in E THEN CustomPRsLabelName ELSE ""]

\* The run has not started: the state of SpecPure's run variables.
RunIdle ==
  /\ cfg = Config({}, TRUE, FALSE, FALSE)
  /\ repoIssues = <<>>
  /\ repoPRs = <<>>
  /\ labelDefs = [l \in {DASHBOARD_LABEL} \cup {TopLabel(c) : c \in Cats} |-> "absent"]
  /\ runs = 0
  /\ pc = "idle"
  /\ cur = 0
  /\ failure = "none"
  /\ issues = <<>>
  /\ PRs = <<>>
  /\ endCursor = 0
  /\ newTop = [c \in Cats |-> <<>>]
  /\ labelled = {}
  /\ toPrune = [c \in Cats |-> <<>>]
  /\ dashboard_body = NoBody
  /\ inflight = {}
  /\ calls = {}
  /\ messages = {}
  /\ previous = FALSE

InitPure ==
  /\ \/ call \in RankCalls
     \/ call \in DiffCalls
     \/ call \in TwiceCalls
     \/ call \in TotalCalls
     \/ call \in DashCalls
  /\ ret = NotReturned
  /\ RunIdle

CallGetTopIssues ==
  /\ call.op = "getTopIssues"
  /\ ~ret.done
  /\ ret' = [done |-> TRUE,
             value |-> getTopIssues(call.issues, call.size, call.subtractNegative,
                                    call.dashboardLabel, call.filter)]
  /\ UNCHANGED <<call, runVars>>

CallGetIssuesDifference ==
  /\ call.op = "getIssuesDifference"
  /\ ~ret.done
  /\ ret' = [done |-> TRUE,
             value |-> getIssuesDifference(call.issues, call.issuesTwo)]
  /\ UNCHANGED <<call, runVars>>

\* getTopIssues applied to the list getTopIssues returned, same arguments.
CallGetTopIssuesTwice ==
  /\ call.op = "getTopIssuesTwice"
  /\ ~ret.done
  /\ ret' = [done |-> TRUE,
             value |-> getTopIssues(
                         getTopIssues(call.issues, call.size, call.subtractNegative,
                                      call.dashboardLabel, call.filter),
                         call.size, call.subtractNegative, call.dashboardLabel,
                         call.filter)]
  /\ UNCHANGED <<call, runVars>>

CallAddTotalReactions ==
  /\ call.op = "addTotalReactions"
  /\ ~ret.done
  /\ ret' = [done |-> TRUE,
             value |-> addTotalReactions(call.issues, call.subtractNegative)]
  /\ UNCHANGED <<call, runVars>>

CallCreateDashboardMarkdown ==
  /\ call.op = "createDashboardMarkdown"
  /\ ~ret.done
  /\ ret' = [done |-> TRUE,
             value |-> createDashboardMarkdown(
                         call.lists[1], call.lists[2], call.lists[3], call.lists[4],
                         call.lists[5], call.topCustomLabel, call.lists[6],
                         call.topCustomPRsLabel, call.header, call.footer,
                         call.showTotalReactions)]
  /\ UNCHANGED <<call, runVars>>

NextPure ==
  \/ CallGetTopIssues
  \/ CallGetIssuesDifference
  \/ CallGetTopIssuesTwice
  \/ CallAddTotalReactions
  \/ CallCreateDashboardMarkdown

SpecPure == InitPure /\ [][NextPure]_vars

\* ------------------------------------------------------------------------
\* Spec: runs of the action (main.ts run()) against a repository
\* ------------------------------------------------------------------------

Enabled(c) ==
  CASE c = "issues" -> cfg.TOP_ISSUES
    [] c = "bugs" -> cfg.TOP_BUGS
    [] c = "features" -> cfg.TOP_FEATURES
    [] c = "prs" -> cfg.TOP_PULL_REQUESTS
    [] c = "custom" -> cfg.CUSTOM_LABEL # ""
    [] c = "customPRs" -> cfg.CUSTOM_PRS_LABEL # ""

\* The list a category reads: issues or PRs.
Snapshot(c) == IF c \in PRCats THEN PRs ELSE issues

\* The items a category ranks (bugIssues, featureIssues, customIssues, ...).
Candidates(c) ==
  CASE c = "issues" -> issues
    [] c = "bugs" -> issuesWithLabel(issues, BUG_LABEL)
    [] c = "features" -> issuesWithLabel(issues, FEATURE_LABEL)
    [] c = "prs" -> PRs
    [] c = "custom" -> issuesWithLabel(issues, cfg.CUSTOM_LABEL)
    [] c = "customPRs" -> issuesWithLabel(PRs, cfg.CUSTOM_PRS_LABEL)

\* oldTopIssues, oldTopBugs, ...: the fetched items carrying the top label.
OldTop(c) == issuesWithLabel(Snapshot(c), TopLabel(c))

\* The labels the initial repository may carry on issues / on PRs, given the
\* enabled categories.
SourceLabels(c) ==
  CASE c = "bugs" -> {BUG_LABEL}
    [] c = "features" -> {FEATURE_LABEL}
    [] c = "custom" -> {CustomLabelName}
    [] c = "customPRs" -> {CustomPRsLabelName}
    [] OTHER -> {}

IssueLabels(E) == UNION {SourceLabels(c) \cup {TopLabel(c)} : c \in E \ PRCats}
PRLabels(E) == UNION {SourceLabels(c) \cup {TopLabel(c)} : c \in E \cap PRCats}

EnabledSets ==
  {{}} \cup {{c} : c \in Cats} \cup {{"issues", "prs"}, {"issues", "bugs"}}

\* Whether the initial repository may hold a dashboard issue (issue 1 with
\* the dashboard label or the dashboard title).
DashboardLabels(E) == IF E = {"issues", "bugs"} THEN {} ELSE {DASHBOARD_LABEL}

\* Whether the newer issue 2 may carry the dashboard label as well.
SecondDashboardLabels(E) == IF E = {"features"} THEN {DASHBOARD_LABEL} ELSE {}
Titles(E) ==
  IF E = {"issues", "bugs"} THEN {"Title 1"} ELSE {"Title 1", DASHBOARD_TITLE}

\* Initial definitions of the labels in the repository.
InitialLabelDefs ==
  [l \in {DASHBOARD_LABEL} \cup {TopLabel(c) : c \in Cats} |->
     IF l \in {DASHBOARD_LABEL, TOP_BUG_LABEL, TOP_PULL_REQUEST_LABEL}
     THEN "stale" ELSE "absent"]

Init ==
  /\ call = [op |-> "none"]
  /\ ret = NotReturned
  /\ \E E \in EnabledSets, dry \in BOOLEAN, label \in BOOLEAN, dashboard \in BOOLEAN :
       /\ cfg = Config(E, dry, label, dashboard)
       /\ \E p2 \in {0, 1}, p1 \in {0, 1},
             l2 \in SUBSET (IssueLabels(E) \cup SecondDashboardLabels(E)),
             l1 \in SUBSET (IssueLabels(E) \cup DashboardLabels(E)),
             t1 \in Titles(E) :
            repoIssues = <<RepoItem(2, "Title 2", p2, 0, l2),
                           RepoItem(1, t1, p1, 0, l1)>>
       /\ \E p3 \in (IF E \cap PRCats = {} THEN {1} ELSE {0, 1}),
             l3 \in SUBSET PRLabels(E) :
            repoPRs = <<RepoItem(3, "Title 3", p3, 0, l3)>>
  /\ labelDefs = InitialLabelDefs
  /\ runs = 1
  /\ pc = "fetchIssues"
  /\ cur = 0
  /\ failure = "none"
  /\ issues = <<>>
  /\ PRs = <<>>
  /\ endCursor = 0
  /\ newTop = [c \in Cats |-> <<>>]
  /\ labelled = {}
  /\ toPrune = [c \in Cats |-> <<>>]
  /\ dashboard_body = NoBody
  /\ inflight = {}
  /\ calls = {}
  /\ messages = {}
  /\ previous = FALSE

pureVars == <<call, ret>>
repoVars == <<repoIssues, repoPRs, labelDefs>>

\* The process is alive: run() is executing or its requests are pending.
Alive == pc \notin {"failed", "idle"}

\* An error thrown out of run() (or an unhandled rejection) ends the process.
AfterErrorContinue(next) == next
AfterError(next) == "failed"

\* One page of `first: PageSize` nodes after the cursor.
PageNodes(list) ==
  [i \in 1 .. Min(PageSize, Len(list) - endCursor) |-> ToNode(list[endCursor + i])]

\* A response that never announces a next page.
HasNextPageNever(list) == FALSE

HasNextPage(list) == endCursor + PageSize < Len(list)

\* fetchOpenIssues: one iteration of the while loop whose request succeeds.
FetchIssuesPage ==
  /\ pc = "fetchIssues"
  /\ issues' = issues \o PageNodes(repoIssues)
  /\ IF HasNextPage(repoIssues)
     THEN /\ endCursor' = endCursor + PageSize
          /\ pc' = "fetchIssues"
     ELSE /\ endCursor' = 0
          /\ pc' = "fetchPRs"
  /\ UNCHANGED <<pureVars, cfg, previous, messages, repoVars, runs, cur, failure, PRs, newTop,
                 labelled, toPrune, dashboard_body, inflight, calls>>

\* fetchOpenIssues: the request of a page throws.
FetchIssuesFails ==
  /\ pc = "fetchIssues"
  /\ pc' = AfterError("fetchPRs")
  /\ failure' = "fetch"
  /\ messages' = messages
       \cup {Message("Could not retrieve top issues using GraphQl", 0, "")}
  /\ UNCHANGED <<pureVars, cfg, previous, repoVars, runs, cur, issues, PRs, endCursor,
                 newTop, labelled, toPrune, dashboard_body, inflight, calls>>

\* fetchOpenPRs: one iteration of the while loop whose request succeeds.
FetchPRsPage ==
  /\ pc = "fetchPRs"
  /\ PRs' = PRs \o PageNodes(repoPRs)
  /\ IF HasNextPage(repoPRs)
     THEN /\ endCursor' = endCursor + PageSize
          /\ pc' = "fetchPRs"
     ELSE /\ endCursor' = 0
          /\ pc' = "check"
  /\ UNCHANGED <<pureVars, cfg, previous, messages, repoVars, runs, cur, failure, issues, newTop,
                 labelled, toPrune, dashboard_body, inflight, calls>>

\* fetchOpenPRs: the request of a page throws.
FetchPRsFails ==
  /\ pc = "fetchPRs"
  /\ pc' = AfterError("check")
  /\ failure' = "fetch"
  /\ messages' = messages
       \cup {Message("Could not retrieve top PRs using GraphQl", 0, "")}
  /\ UNCHANGED <<pureVars, cfg, previous, repoVars, runs, cur, issues, PRs, endCursor,
                 newTop, labelled, toPrune, dashboard_body, inflight, calls>>

\* A test that only looks at the enabled categories.
NothingToDoCategoriesOnly ==
  ~cfg.TOP_ISSUES /\ ~cfg.TOP_BUGS /\ ~cfg.TOP_FEATURES

\* main.ts:92
NothingToDo ==
  \/ (~cfg.TOP_ISSUES /\ ~cfg.TOP_BUGS /\ ~cfg.TOP_FEATURES)
  \/ (~cfg.LABEL /\ ~cfg.DASHBOARD)

CheckNothingToDo ==
  /\ pc = "check"
  /\ IF NothingToDo
     THEN pc' = "nothing" /\ cur' = cur
     ELSE pc' = "rank" /\ cur' = 1
  /\ UNCHANGED <<pureVars, cfg, previous, messages, repoVars, runs, failure, issues, PRs, endCursor,
                 newTop, labelled, toPrune, dashboard_body, inflight, calls>>

\* if (LABEL) { if (!DRY_RUN) await labelTopIssues(...) }
LabelEvenInDryRun == cfg.LABEL
CallsLabelTopIssues == cfg.LABEL /\ ~cfg.DRY_RUN

\* if (DASHBOARD) { ... if (!DRY_RUN) await createDashboard(...) }
PublishEvenInDryRun == cfg.DASHBOARD
CallsCreateDashboard == cfg.DASHBOARD /\ ~cfg.DRY_RUN

\* A ranking that a dry run skips.
SelectionLiveOnly(c) ==
  IF cfg.DRY_RUN THEN <<>>
  ELSE getTopIssues(Candidates(c), TOP_LIST_SIZE, SUBTRACT_NEGATIVE,
                    DASHBOARD_LABEL, FILTER)

\* The new top list of a category.
Selection(c) ==
  getTopIssues(Candidates(c), TOP_LIST_SIZE, SUBTRACT_NEGATIVE, DASHBOARD_LABEL,
               FILTER)

\* A ranking whose sort works on the list it was given.
SnapshotSortedInPlace(list, subtractNegative) ==
  LET sorted == SortByScoreDesc(addTotalReactions(list, subtractNegative))
  IN [i \in DOMAIN sorted |->
        IssueNode(sorted[i].number, sorted[i].title, sorted[i].positive,
                  sorted[i].negative, sorted[i].labels)]

\* The fetched list after issuesWithLabel and getTopIssues have read it:
\* filter returns a new array, addTotalReactions pushes copies of the items
\* to a new array, and the sort works on that array.
SnapshotAfterRanking(list, subtractNegative) == list

\* run(): one `if (TOP_...) { ... }` block up to the call of labelTopIssues.
RankCategory ==
  /\ pc = "rank"
  /\ LET c == CatOrder[cur] IN
       /\ newTop' = IF Enabled(c) THEN [newTop EXCEPT ![c] = Selection(c)]
                    ELSE newTop
       /\ issues' = IF Enabled(c) /\ c \notin PRCats
                    THEN SnapshotAfterRanking(issues, SUBTRACT_NEGATIVE)
                    ELSE issues
       /\ PRs' = IF Enabled(c) /\ c \in PRCats
                 THEN SnapshotAfterRanking(PRs, SUBTRACT_NEGATIVE)
                 ELSE PRs
       /\ IF Enabled(c) /\ CallsLabelTopIssues
          THEN pc' = "initLabel" /\ cur' = cur
          ELSE IF cur < Len(CatOrder)
               THEN pc' = "rank" /\ cur' = cur + 1
               ELSE pc' = "dashboard" /\ cur' = cur
  /\ UNCHANGED <<pureVars, cfg, previous, messages, repoVars, runs, failure, endCursor,
                 labelled, toPrune, dashboard_body, inflight, calls>>

\* initLabel: the label is created when absent and updated when its colour
\* or description differ.
InitLabelCalls(label) ==
  CASE labelDefs[label] = "absent" -> {Request("createLabel", 0, label)}
    [] labelDefs[label] = "stale" -> {Request("updateLabel", 0, label)}
    [] OTHER -> {}

\* labelIssues: addLabelToIssue sends a request for every new top item whose
\* fetched labels lack the label.
AddRequests(c) ==
  {Request("addLabels", newTop[c][i].number, TopLabel(c)) :
     i \in {k \in DOMAIN newTop[c] : ~HasLabel(newTop[c][k], TopLabel(c))}}

\* A removal that does not look at the fetched labels of the item.
RemoveRequestsUnguarded(c, topIssuesToPrune) ==
  {Request("removeLabel", topIssuesToPrune[i].number, TopLabel(c)) :
     i \in DOMAIN topIssuesToPrune}

\* removeLabelFromIssues: removeLabelFromIssue sends a request for every
\* item to prune whose fetched labels have the label.
RemoveRequests(c, topIssuesToPrune) ==
  {Request("removeLabel", topIssuesToPrune[i].number, TopLabel(c)) :
     i \in {k \in DOMAIN topIssuesToPrune :
              HasLabel(topIssuesToPrune[k], TopLabel(c))}}

\* labelTopIssues, initLabel succeeding: the label requests are sent and
\* not awaited.
LabelTopIssues ==
  /\ pc = "initLabel"
  /\ LET c == CatOrder[cur]
         topIssuesToPrune == getIssuesDifference(OldTop(c), newTop[c])
         sent == AddRequests(c) \cup RemoveRequests(c, topIssuesToPrune)
     IN /\ calls' = calls \cup InitLabelCalls(TopLabel(c)) \cup sent
        /\ labelDefs' = [labelDefs EXCEPT ![TopLabel(c)] = "ok"]
        /\ inflight' = inflight \cup sent
        /\ toPrune' = [toPrune EXCEPT ![c] = topIssuesToPrune]
        /\ labelled' = labelled \cup {c}
  /\ IF cur < Len(CatOrder)
     THEN pc' = "rank" /\ cur' = cur + 1
     ELSE pc' = "dashboard" /\ cur' = cur
  /\ UNCHANGED <<pureVars, cfg, previous, messages, repoIssues, repoPRs, runs, failure, issues, PRs,
                 endCursor, newTop, dashboard_body>>

\* labelTopIssues, initLabel throwing.
LabelTopIssuesFails ==
  /\ pc = "initLabel"
  /\ pc' = AfterError("rank")
  /\ failure' = "initLabel"
  /\ messages' = messages
       \cup {Message("Something went wrong while initializing the issue label", 0,
                     TopLabel(CatOrder[cur]))}
  /\ UNCHANGED <<pureVars, cfg, previous, repoVars, runs, cur, issues, PRs, endCursor,
                 newTop, labelled, toPrune, dashboard_body, inflight, calls>>

\* run(): the dashboard block up to the call of createDashboard.
RenderDashboard ==
  /\ pc = "dashboard"
  /\ IF cfg.DASHBOARD
     THEN /\ dashboard_body' =
               [rendered |-> TRUE,
                body |-> createDashboardMarkdown(
                           newTop["issues"], newTop["bugs"], newTop["features"],
                           newTop["prs"], newTop["custom"], cfg.CUSTOM_LABEL,
                           newTop["customPRs"], cfg.CUSTOM_PRS_LABEL,
                           DASHBOARD_HEADER, DASHBOARD_FOOTER,
                           DASHBOARD_SHOW_TOTAL_REACTIONS)]
          /\ pc' = IF CallsCreateDashboard THEN "createDashboard" ELSE "done"
     ELSE /\ dashboard_body' = dashboard_body
          /\ pc' = "done"
  /\ UNCHANGED <<pureVars, cfg, previous, messages, repoVars, runs, cur, failure, issues, PRs,
                 endCursor, newTop, labelled, toPrune, inflight, calls>>

\* A lookup of the dashboard issue by title alone.
DashboardIssueByTitleOnly ==
  SelectSeq(issues, LAMBDA issue : issue.title = DASHBOARD_TITLE)

\* createDashboard: the issue to update, if any: by label first, else by title.
DashboardIssue ==
  LET byLabel == issuesWithLabel(issues, DASHBOARD_LABEL)
  IN IF Len(byLabel) = 0
     THEN SelectSeq(issues, LAMBDA issue : issue.title = DASHBOARD_TITLE)
     ELSE byLabel

NextNumber ==
  1 + Max(IF repoIssues = <<>> THEN 0 ELSE repoIssues[1].number,
          IF repoPRs = <<>> THEN 0 ELSE repoPRs[1].number)

\* createDashboard with initLabel and the issue request succeeding: the
\* found issue gets the title and the label list [label], or a new issue is
\* created.
CreateDashboard ==
  /\ pc = "createDashboard"
  /\ labelDefs' = [labelDefs EXCEPT ![DASHBOARD_LABEL] = "ok"]
  /\ IF Len(DashboardIssue) > 0
     THEN /\ repoIssues' =
               [i \in DOMAIN repoIssues |->
                  IF repoIssues[i].number = DashboardIssue[1].number
                  THEN [repoIssues[i] EXCEPT !.title = DASHBOARD_TITLE,
                                             !.labels = {DASHBOARD_LABEL}]
                  ELSE repoIssues[i]]
          /\ calls' = calls \cup InitLabelCalls(DASHBOARD_LABEL)
                        \cup {Request("update", DashboardIssue[1].number,
                                      DASHBOARD_LABEL)}
     ELSE /\ repoIssues' =
               <<RepoItem(NextNumber, DASHBOARD_TITLE, 0, 0, {DASHBOARD_LABEL})>>
               \o repoIssues
          /\ calls' = calls \cup InitLabelCalls(DASHBOARD_LABEL)
                        \cup {Request("create", 0, DASHBOARD_LABEL)}
  /\ pc' = "done"
  /\ UNCHANGED <<pureVars, cfg, previous, messages, repoPRs, runs, cur, failure, issues, PRs,
                 endCursor, newTop, labelled, toPrune, dashboard_body, inflight>>

\* createDashboard: initLabel or the issue request throws.
CreateDashboardFails ==
  /\ pc = "createDashboard"
  /\ pc' = AfterError("done")
  /\ failure' = "createDashboard"
  /\ \E m \in {Message("Something went wrong while initializing the dashboard label",
                        0, DASHBOARD_LABEL),
                IF Len(DashboardIssue) > 0
                THEN Message("Could not update issue", DashboardIssue[1].number, "")
                ELSE Message("Could not create issue", 0, "")} :
       messages' = messages \cup {m}
  /\ UNCHANGED <<pureVars, cfg, previous, repoVars, runs, cur, issues, PRs, endCursor,
                 newTop, labelled, toPrune, dashboard_body, inflight, calls>>

\* GitHub applies a label request to the item with that number.
ApplyTo(list, r) ==
  [i \in DOMAIN list |->
     IF list[i].number # r.number THEN list[i]
     ELSE IF r.op = "addLabels"
          THEN [list[i] EXCEPT !.labels = @ \cup {r.label}]
          ELSE [list[i] EXCEPT !.labels = @ \ {r.label}]]

LabelsOf(n) ==
  UNION {repoIssues[i].labels : i \in {k \in DOMAIN repoIssues : repoIssues[k].number = n}}
  \cup UNION {repoPRs[i].labels : i \in {k \in DOMAIN repoPRs : repoPRs[k].number = n}}

\* A remove request for a label the item does not carry is answered 404.
Accepted(r) == r.op = "addLabels" \/ r.label \in LabelsOf(r.number)

\* A pending addLabels / removeLabel request is answered with success.
RequestSucceeds ==
  \E r \in inflight :
    /\ Accepted(r)
    /\ inflight' = inflight \ {r}
    /\ repoIssues' = ApplyTo(repoIssues, r)
    /\ repoPRs' = ApplyTo(repoPRs, r)
    /\ UNCHANGED <<pureVars, cfg, previous, messages, labelDefs, runs, pc, cur, failure, issues, PRs,
                   endCursor, newTop, labelled, toPrune, dashboard_body, calls>>

\* What the rejection of a label request reports: the catch block of
\* addLabelToIssue awaits its request and calls setFailed; the try block of
\* removeLabelFromIssue has returned before its request is answered, so its
\* catch block never runs.
FailureMessages(r) ==
  IF r.op = "addLabels"
  THEN {Message("Could not add label to issue", r.number, r.label)}
  ELSE {}

\* A pending request is answered with an error (or lost once the process is
\* gone): nothing handles the rejected promise, which ends a live process.
RequestFails ==
  \E r \in inflight :
    /\ inflight' = inflight \ {r}
    /\ IF Alive
       THEN /\ pc' = AfterError(pc)
            /\ failure' = "request"
            /\ messages' = messages \cup FailureMessages(r)
       ELSE /\ pc' = pc
            /\ failure' = failure
            /\ messages' = messages
    /\ UNCHANGED <<pureVars, cfg, previous, repoVars, runs, cur, issues, PRs, endCursor,
                   newTop, labelled, toPrune, dashboard_body, calls>>

\* The workflow starts the action again, once the previous process is gone.
NextRun ==
  /\ pc \in {"done", "nothing", "failed"}
  /\ inflight = {}
  /\ runs < MaxRuns
  /\ runs' = runs + 1
  /\ previous' = (pc = "done" /\ failure = "none")
  /\ messages' = {}
  /\ pc' = "fetchIssues"
  /\ cur' = 0
  /\ failure' = "none"
  /\ issues' = <<>>
  /\ PRs' = <<>>
  /\ endCursor' = 0
  /\ newTop' = [c \in Cats |-> <<>>]
  /\ labelled' = {}
  /\ toPrune' = [c \in Cats |-> <<>>]
  /\ dashboard_body' = NoBody
  /\ calls' = {}
  /\ UNCHANGED <<pureVars, cfg, repoVars, inflight>>

Next ==
  \/ FetchIssuesPage
  \/ FetchIssuesFails
  \/ FetchPRsPage
  \/ FetchPRsFails
  \/ CheckNothingToDo
  \/ RankCategory
  \/ LabelTopIssues
  \/ LabelTopIssuesFails
  \/ RenderDashboard
  \/ CreateDashboard
  \/ CreateDashboardFails
  \/ RequestSucceeds
  \/ RequestFails
  \/ NextRun

Spec == Init /\ [][Next]_vars

\* ------------------------------------------------------------------------
\* Properties of the pure helpers (SpecPure)
\* ------------------------------------------------------------------------

Returned(op) == call.op = op /\ ret.done

Numbers(s) == [i \in DOMAIN s |-> s[i].number]

\* Position in the input list of the item with the given number.
InputIndex(n) == CHOOSE i \in DOMAIN call.issues : call.issues[i].number = n

\* C1: every item getTopIssues returns has positive - negative > 0 when
\* subtractNegative is true and positive > 0 when it is false.
C1_ScoreFloor ==
  Returned("getTopIssues") =>
    \A i \in DOMAIN ret.value :
      /\ call.subtractNegative =>
           ret.value[i].positive - ret.value[i].negative > 0
      /\ ~call.subtractNegative => ret.value[i].positive > 0

C1_Witness ==
  /\ Returned("getTopIssues")
  /\ Len(ret.value) > 0
  /\ Len(ret.value) < Len(call.issues)
  /\ call.size >= Len(call.issues)
  /\ \E i \in DOMAIN call.issues :
       /\ call.issues[i].positive - call.issues[i].negative <= 0
       /\ ~HasLabel(call.issues[i], call.dashboardLabel)

\* C2: getTopIssues returns its items in non-increasing score order, items
\* of equal score in the order of the input list; the two documented
\* rankings of the five dummy issues are [3,1,5] and [3,2,1,5].
C2_SortedStable ==
  Returned("getTopIssues") =>
    /\ \A i, j \in DOMAIN ret.value :
         i < j =>
           /\ getReactionsCount(ret.value[i], call.subtractNegative)
                >= getReactionsCount(ret.value[j], call.subtractNegative)
           /\ getReactionsCount(ret.value[i], call.subtractNegative)
                = getReactionsCount(ret.value[j], call.subtractNegative)
              => InputIndex(ret.value[i].number) < InputIndex(ret.value[j].number)
    /\ (call.issues = dummyIssues /\ call.size = 10) =>
         Numbers(ret.value) =
           IF call.subtractNegative THEN <<3, 1, 5>> ELSE <<3, 2, 1, 5>>

C2_Witness ==
  /\ Returned("getTopIssues")
  /\ Len(ret.value) >= 2
  /\ call.issues # dummyIssues
  /\ getReactionsCount(ret.value[1], call.subtractNegative)
       = getReactionsCount(ret.value[2], call.subtractNegative)

\* C3: no item that carries the dashboard label is in the output of
\* getTopIssues, whichever other labels it carries.
C3_NoDashboardItem ==
  Returned("getTopIssues") =>
    \A i \in DOMAIN ret.value : ~HasLabel(ret.value[i], call.dashboardLabel)

\* C4: with a non-empty first list, getIssuesDifference(A, B) is exactly the
\* items of A whose number does not occur in B, in the order of A; it is A
\* when B is empty and [10, 6] for {10,1,2,3,6} against {1,..,5}.
C4_DifferenceByNumber ==
  (Returned("getIssuesDifference") /\ Len(call.issues) > 0) =>
    LET A == call.issues
        B == call.issuesTwo
        keep == {i \in DOMAIN A : A[i].number \notin Range(Numbers(B))}
    IN /\ Len(ret.value) = Cardinality(keep)
       /\ \A i \in keep : \E k \in DOMAIN ret.value : ret.value[k] = A[i]
       /\ \A k \in DOMAIN ret.value : \E i \in keep : ret.value[k] = A[i]
       /\ \A k, m \in DOMAIN ret.value :
            k < m => InputIndex(ret.value[k].number) < InputIndex(ret.value[m].number)
       /\ B = <<>> => ret.value = A
       /\ (A = differentDummyIssues /\ B = dummyIssues) =>
            Numbers(ret.value) = <<10, 6>>

C4_Witness ==
  /\ Returned("getIssuesDifference")
  /\ Len(call.issues) = 2
  /\ Len(ret.value) = 1
  /\ \E k \in DOMAIN call.issuesTwo :
       /\ call.issuesTwo[k].number = call.issues[1].number
       /\ call.issuesTwo[k] # call.issues[1]

\* C5: getIssuesDifference([], B) is the empty list for every B.
C5_EmptyFirstGivesEmpty ==
  (Returned("getIssuesDifference") /\ call.issues = <<>>) => ret.value = <<>>

CallScore(issue) ==
  IF call.subtractNegative THEN issue.positive - issue.negative ELSE issue.positive

\* The input positions of the eligible items: not the dashboard issue, not
\* in the filter, score above zero.
EligibleInputs ==
  {i \in DOMAIN call.issues :
     /\ ~HasLabel(call.issues[i], call.dashboardLabel)
     /\ call.issues[i].number \notin Range(call.filter)
     /\ CallScore(call.issues[i]) > 0}

\* C15: for size >= 0, getTopIssues returns min(size, E) items, E the number
\* of eligible items, all of them eligible, and no eligible item left out
\* scores higher than a returned one.
C15_FirstSizeOfEligible ==
  (Returned("getTopIssues") /\ call.size >= 0) =>
    /\ Len(ret.value) = Min(call.size, Cardinality(EligibleInputs))
    /\ \A k \in DOMAIN ret.value :
         \E i \in EligibleInputs : call.issues[i].number = ret.value[k].number
    /\ \A i \in EligibleInputs :
         (\A k \in DOMAIN ret.value : ret.value[k].number # call.issues[i].number)
           => \A k \in DOMAIN ret.value :
                CallScore(ret.value[k]) >= CallScore(call.issues[i])

\* C16: for size <= 0, getTopIssues returns the empty list.
C16_NonPositiveSizeGivesEmpty ==
  (Returned("getTopIssues") /\ call.size <= 0) => ret.value = <<>>

\* C17: getTopIssues returns no item whose number is in the filter, and an
\* item left out of a result that was not truncated carries the dashboard
\* label, scores zero or less, or has its number in the filter: with an empty
\* filter no item is excluded on account of its number.
C17_FilterExcludesByNumber ==
  Returned("getTopIssues") =>
    /\ \A k \in DOMAIN ret.value : ret.value[k].number \notin Range(call.filter)
    /\ call.size >= Len(call.issues) =>
         \A i \in DOMAIN call.issues :
           (\A k \in DOMAIN ret.value : ret.value[k].number # call.issues[i].number)
             => \/ HasLabel(call.issues[i], call.dashboardLabel)
                \/ CallScore(call.issues[i]) <= 0
                \/ call.issues[i].number \in Range(call.filter)

C17_Witness ==
  /\ Returned("getTopIssues")
  /\ call.filter # <<>>
  /\ call.size >= Len(call.issues)
  /\ Len(ret.value) = 1
  /\ \E i \in DOMAIN call.issues :
       /\ call.issues[i].number \in Range(call.filter)
       /\ call.issues[i].labels = <<>>
       /\ CallScore(call.issues[i]) > CallScore(ret.value[1])

\* C18: getTopIssues applied to the list getTopIssues returned, with the same
\* size, subtractNegative, dashboard label and filter, returns that list.
C18_RankingIdempotent ==
  Returned("getTopIssuesTwice") =>
    ret.value = getTopIssues(call.issues, call.size, call.subtractNegative,
                             call.dashboardLabel, call.filter)

\* C19: addTotalReactions returns one item per input item, in input order,
\* with the input's fields and totalReactions = positive - negative when
\* subtractNegative is true and = positive when it is false.
C19_TotalReactions ==
  Returned("addTotalReactions") =>
    /\ Len(ret.value) = Len(call.issues)
    /\ \A i \in DOMAIN call.issues :
         /\ ret.value[i].number = call.issues[i].number
         /\ ret.value[i].title = call.issues[i].title
         /\ ret.value[i].positive = call.issues[i].positive
         /\ ret.value[i].negative = call.issues[i].negative
         /\ ret.value[i].labels = call.issues[i].labels
         /\ DOMAIN ret.value[i] = DOMAIN call.issues[i] \cup {"totalReactions"}
         /\ call.subtractNegative =>
              ret.value[i].totalReactions
                = call.issues[i].positive - call.issues[i].negative
         /\ ~call.subtractNegative =>
              ret.value[i].totalReactions = call.issues[i].positive
    /\ (call.issues = dummyIssues) =>
         [i \in DOMAIN ret.value |-> ret.value[i].totalReactions] =
           IF call.subtractNegative THEN <<2, -2, 4, 0, 1>> ELSE <<2, 3, 5, 0, 1>>

C19_Witness ==
  /\ Returned("addTotalReactions")
  /\ call.subtractNegative
  /\ Len(ret.value) = 2
  /\ ret.value[1].totalReactions < 0
  /\ ret.value[2].totalReactions > 0

\* The headings of the six sections in their fixed order.
SectionHeadings ==
  <<"## Top issues", "## Top bugs", "## Top feature requests", "## Top PRs",
    "## Top '' issues", "## Top '' pull requests">>

\* The sections with at least one item, in the fixed order.
NonEmptySections ==
  SelectSeq(<<1, 2, 3, 4, 5, 6>>, LAMBDA k : call.lists[k] # <<>>)

\* Position in the body of the last heading before position p.
HeadingBefore(body, p) ==
  CHOOSE h \in 1..p :
    /\ body[h].kind = "heading"
    /\ \A j \in (h + 1)..p : body[j].kind # "heading"

\* C20: the body createDashboardMarkdown returns starts with the header
\* as given, its headings are those of the non-empty lists in the order
\* issues, bugs, features, pull requests, custom issues, custom pull
\* requests, and every item line stands under the heading of its list.
C20_SectionsInFixedOrder ==
  Returned("createDashboardMarkdown") =>
    LET body == ret.value
        headings == SelectSeq(body, LAMBDA part : part.kind = "heading")
    IN /\ body[1].kind = "header"
       /\ body[1].text = call.header
       /\ \A p \in DOMAIN body : p > 1 => body[p].kind # "header"
       /\ NonEmptySections # <<>> =>
            /\ [i \in DOMAIN headings |-> headings[i].text]
                 = [i \in DOMAIN NonEmptySections |->
                      SectionHeadings[NonEmptySections[i]]]
            /\ \A k \in 1..6 :
                 \A i \in DOMAIN call.lists[k] :
                   \E p \in DOMAIN body :
                     /\ body[p].kind = "item"
                     /\ body[p].idx = i
                     /\ body[p].number = call.lists[k][i].number
                     /\ body[HeadingBefore(body, p)].text = SectionHeadings[k]
            /\ Cardinality({p \in DOMAIN body : body[p].kind = "item"})
                 = Len(call.lists[1]) + Len(call.lists[2]) + Len(call.lists[3])
                   + Len(call.lists[4]) + Len(call.lists[5]) + Len(call.lists[6])

C20_Witness ==
  /\ Returned("createDashboardMarkdown")
  /\ call.header # ""
  /\ call.lists[1] = <<>>
  /\ call.lists[3] = <<>>
  /\ call.lists[2] # <<>>
  /\ call.lists[4] # <<>>
  /\ call.lists[6] # <<>>
  /\ Len(ret.value) >= 7

\* C21: createDashboardMarkdown emits no heading for an empty list, emits the
\* fallback section (heading "## Top issues", the no-top-issues text) exactly
\* when all six lists are empty, and ends the body with the footer exactly
\* when the footer is not empty.
C21_EmptySectionsAndFallback ==
  Returned("createDashboardMarkdown") =>
    LET body == ret.value
        last == body[Len(body)]
        fallbacks == {p \in DOMAIN body : body[p].kind = "fallback"}
        footers == {p \in DOMAIN body : body[p].kind = "footer"}
    IN /\ NonEmptySections # <<>> =>
            /\ fallbacks = {}
            /\ \A k \in 1..6 :
                 call.lists[k] = <<>> =>
                   \A p \in DOMAIN body :
                     body[p].kind = "heading" => body[p].text # SectionHeadings[k]
       /\ NonEmptySections = <<>> =>
            /\ Cardinality(fallbacks) = 1
            /\ body[2].kind = "heading" /\ body[2].text = "## Top issues"
            /\ body[3].kind = "fallback"
            /\ Len(body) = (IF call.footer = "" THEN 3 ELSE 4)
       /\ call.footer = "" => (footers = {} /\ last.kind \in {"item", "fallback"})
       /\ call.footer # "" =>
            (footers = {Len(body)} /\ last.text = call.footer)

C21_Witness ==
  /\ Returned("createDashboardMarkdown")
  /\ NonEmptySections = <<>>
  /\ call.footer = ""
  /\ Len(ret.value) = 3

\* The parts of the body between the heading at position h and the next
\* heading or footer.
SectionItems(body, h) ==
  LET stop == {p \in (h + 1)..Len(body) : body[p].kind # "item"}
      end == IF stop = {} THEN Len(body) ELSE (CHOOSE p \in stop : \A q \in stop : p <= q) - 1
  IN SubSeq(body, h + 1, end)

\* C22: under the heading of every non-empty list stand exactly the items
\* of that list, one line per item in input order, the k-th line numbered k
\* and naming the k-th item, with its totalReactions exactly when
\* showTotalReactions is true.
C22_OneLinePerItem ==
  Returned("createDashboardMarkdown") =>
    LET body == ret.value IN
      \A k \in 1..6 :
        call.lists[k] # <<>> =>
          \E h \in DOMAIN body :
            /\ body[h].kind = "heading"
            /\ body[h].text = SectionHeadings[k]
            /\ LET lines == SectionItems(body, h) IN
                 /\ Len(lines) = Len(call.lists[k])
                 /\ \A i \in DOMAIN lines :
                      /\ lines[i].idx = i
                      /\ lines[i].number = call.lists[k][i].number
                      /\ lines[i].reactions =
                           IF call.showTotalReactions
                           THEN <<call.lists[k][i].totalReactions>>
                           ELSE <<>>

C22_Witness ==
  /\ Returned("createDashboardMarkdown")
  /\ call.showTotalReactions
  /\ Len(call.lists[1]) = 2
  /\ Len(call.lists[6]) = 2
  /\ call.lists[3] # <<>>
  /\ Cardinality({p \in DOMAIN ret.value : ret.value[p].kind = "item"}) >= 5

\* The section headings of the expected documents of the tests.
AnchoredHeadings ==
  <<"## Top issues <a href=\"#top-issues\" id=\"top-issues\"/>",
    "## Top bugs <a href=\"#top-bugs\" id=\"top-bugs\"/>",
    "## Top feature requests <a href=\"#top-feature-requests\" id=\"top-feature-requests\"/>",
    "## Top PRs <a href=\"#top-prs\" id=\"top-prs\"/>",
    "## Top '' issues <a href=\"#top-\" id=\"top-\"/>",
    "## Top '' pull requests <a href=\"#top--prs\" id=\"top--prs\"/>">>

\* C30: every section heading createDashboardMarkdown emits for a non-empty
\* list is the heading with its HTML anchor, as in the expected documents of
\* the tests.
C30_HeadingsCarryAnchors ==
  (Returned("createDashboardMarkdown") /\ NonEmptySections # <<>>) =>
    \A p \in DOMAIN ret.value :
      ret.value[p].kind = "heading" =>
        \E k \in 1..6 : ret.value[p].text = AnchoredHeadings[k]

\* ------------------------------------------------------------------------
\* Properties of the runs (Spec)
\* ------------------------------------------------------------------------

\* Numbers of the repository items that carry the label.
Carriers(label) ==
  {repoIssues[i].number : i \in {k \in DOMAIN repoIssues : label \in repoIssues[k].labels}}
  \cup {repoPRs[i].number : i \in {k \in DOMAIN repoPRs : label \in repoPRs[k].labels}}

\* All label requests of the category have been answered with success.
Reconciled(c) ==
  /\ c \in labelled
  /\ failure = "none"
  /\ \A r \in inflight : r.label # TopLabel(c)

\* C7: once labelTopIssues has run for a category and all its add/remove
\* requests have succeeded, the items carrying the category's top label are
\* exactly the items of the category's new top list.
C7_TopLabelIsSelection ==
  \A c \in Cats :
    Reconciled(c) => Carriers(TopLabel(c)) = Range(Numbers(newTop[c]))

\* C8: a dry run issues no mutating request: no label definition
\* create/update, no label add/remove, no dashboard issue create/update.
C8_DryRunMutatesNothing ==
  cfg.DRY_RUN =>
    /\ calls = {}
    /\ inflight = {}
    /\ labelDefs = InitialLabelDefs
    /\ labelled = {}

C8_Witness ==
  /\ cfg.DRY_RUN /\ cfg.LABEL /\ cfg.DASHBOARD
  /\ pc = "done"
  /\ dashboard_body.rendered
  /\ \E c \in Cats : newTop[c] # <<>> /\ ~HasLabel(newTop[c][1], TopLabel(c))

\* What a run computes from its snapshot and its inputs other than DRY_RUN.
RankedFromSnapshot(c) ==
  IF Enabled(c)
  THEN getTopIssues(Candidates(c), TOP_LIST_SIZE, SUBTRACT_NEGATIVE,
                    DASHBOARD_LABEL, FILTER)
  ELSE <<>>

BodyFromSnapshot ==
  createDashboardMarkdown(
    RankedFromSnapshot("issues"), RankedFromSnapshot("bugs"),
    RankedFromSnapshot("features"), RankedFromSnapshot("prs"),
    RankedFromSnapshot("custom"), cfg.CUSTOM_LABEL,
    RankedFromSnapshot("customPRs"), cfg.CUSTOM_PRS_LABEL,
    DASHBOARD_HEADER, DASHBOARD_FOOTER, DASHBOARD_SHOW_TOTAL_REACTIONS)

PruneFromSnapshot(c) == getIssuesDifference(OldTop(c), RankedFromSnapshot(c))

RankedAndRendered ==
  /\ \A c \in Cats : newTop[c] = RankedFromSnapshot(c)
  /\ cfg.DASHBOARD =>
       dashboard_body.rendered /\ dashboard_body.body = BodyFromSnapshot

\* C9 as stated: a completed run, dry or live, has computed for every enabled
\* category the ranked selection and the items to unlabel, and has rendered
\* the dashboard body, all as functions of the snapshot and the inputs other
\* than DRY_RUN.
C9_SamePipelineDryAndLive ==
  pc = "done" =>
    /\ RankedAndRendered
    /\ cfg.LABEL =>
         \A c \in Cats :
           Enabled(c) => c \in labelled /\ toPrune[c] = PruneFromSnapshot(c)

\* C9 amended: a completed run, dry or live, has computed the same ranked
\* selections and rendered the same dashboard body; the items to unlabel are
\* computed in a live run with labeling only, and a dry run sends nothing.
C9_SameSelectionAndBody ==
  pc = "done" =>
    /\ RankedAndRendered
    /\ \A c \in Cats :
         /\ c \in labelled <=> (Enabled(c) /\ cfg.LABEL /\ ~cfg.DRY_RUN)
         /\ c \in labelled => toPrune[c] = PruneFromSnapshot(c)
    /\ cfg.DRY_RUN => calls = {}

C9_Witness ==
  /\ pc = "done"
  /\ cfg.DRY_RUN /\ cfg.LABEL /\ cfg.DASHBOARD
  /\ \E c \in Cats :
       /\ Enabled(c)
       /\ newTop[c] # <<>>
       /\ PruneFromSnapshot(c) # <<>>
       /\ toPrune[c] = <<>>

\* C10: when the request of a page of issues or of pull requests fails, the
\* run fails without ranking, labelling, label definition change or
\* dashboard create/update.
C10_FetchFailureIsFatal ==
  failure = "fetch" =>
    /\ pc = "failed"
    /\ \A c \in Cats : newTop[c] = <<>>
    /\ labelled = {}
    /\ ~dashboard_body.rendered
    /\ calls = {}
    /\ inflight = {}

C10_Witness ==
  /\ failure = "fetch"
  /\ Len(issues) > 0
  /\ PRs = <<>>
  /\ ~cfg.DRY_RUN /\ cfg.LABEL /\ cfg.DASHBOARD /\ cfg.TOP_ISSUES
  /\ \E i \in DOMAIN issues : issues[i].positive > 0

\* C11: with no category enabled, or with neither labeling nor the dashboard
\* enabled, a run issues no mutating request and, once its two fetches have
\* succeeded, returns at the "nothing to do" test without a failure.
C11_NothingToDoMutatesNothing ==
  ((\A c \in Cats : ~Enabled(c)) \/ (~cfg.LABEL /\ ~cfg.DASHBOARD)) =>
    /\ calls = {}
    /\ inflight = {}
    /\ labelDefs = InitialLabelDefs
    /\ labelled = {}
    /\ ~dashboard_body.rendered
    /\ failure \in {"none", "fetch"}
    /\ pc \in {"fetchIssues", "fetchPRs", "check", "nothing", "failed"}
    /\ pc = "failed" <=> failure = "fetch"

C11_Witness ==
  /\ pc = "nothing"
  /\ failure = "none"
  /\ cfg.TOP_ISSUES /\ ~cfg.LABEL /\ ~cfg.DASHBOARD /\ ~cfg.DRY_RUN
  /\ \E i \in DOMAIN issues :
       issues[i].positive > 0 /\ ~HasLabel(issues[i], TOP_ISSUE_LABEL)

\* The dashboard create/update requests this run has issued.
PublishCalls == {r \in calls : r.op \in {"update", "create"}}

\* C12: the dashboard publish is the last mutation of a run: once the
\* dashboard issue has been created or updated, no step changes the labels
\* of an issue or pull request any more.
C12_DashboardIsLastMutation ==
  [][PublishCalls # {} => (repoIssues' = repoIssues /\ repoPRs' = repoPRs)]_vars

\* C13: a label add/remove request that fails does not abort the run: a
\* run in which such a request failed still goes through labelTopIssues for
\* every enabled category and publishes the dashboard.
C13_LabelFailureDoesNotAbort ==
  (failure = "request" /\ pc = "failed") =>
    /\ \A c \in Cats : (Enabled(c) /\ CallsLabelTopIssues) => c \in labelled
    /\ CallsCreateDashboard => PublishCalls # {}

\* Numbers of the issues and pull requests of the initial repository.
InitialNumbers == {1, 2, 3}

\* The issues created since the first run started.
CreatedIssues ==
  {i \in DOMAIN repoIssues : repoIssues[i].number \notin InitialNumbers}

\* Smallest index of a non-empty set of indices.
FirstIndex(S) == CHOOSE i \in S : \A j \in S : i <= j

\* C14: a publish is exactly one issue request: an update of the first
\* fetched issue carrying the dashboard label, else of the first fetched
\* issue with the dashboard title, else a create; and over the runs of the
\* action at most one dashboard issue is created.
C14_OneDashboardIssue ==
  LET withLabel == {i \in DOMAIN issues : HasLabel(issues[i], DASHBOARD_LABEL)}
      withTitle == {i \in DOMAIN issues : issues[i].title = DASHBOARD_TITLE}
  IN /\ Cardinality(PublishCalls) <= 1
     /\ (pc = "done" /\ cfg.DASHBOARD /\ ~cfg.DRY_RUN) =>
          Cardinality(PublishCalls) = 1
     /\ \A r \in PublishCalls :
          IF withLabel # {}
          THEN r = Request("update", issues[FirstIndex(withLabel)].number,
                           DASHBOARD_LABEL)
          ELSE IF withTitle # {}
               THEN r = Request("update", issues[FirstIndex(withTitle)].number,
                                DASHBOARD_LABEL)
               ELSE r = Request("create", 0, DASHBOARD_LABEL)
     /\ Cardinality(CreatedIssues) <= 1

C14_Witness ==
  /\ runs = 2
  /\ pc = "done"
  /\ Cardinality(CreatedIssues) = 1
  /\ \E i \in CreatedIssues :
       PublishCalls = {Request("update", repoIssues[i].number, DASHBOARD_LABEL)}

\* C23: the run takes the nothing-to-do exit only when none of the six
\* categories is enabled or neither labeling nor the dashboard is enabled.
C23_NothingToDoOnlyWhenNothingEnabled ==
  pc = "nothing" =>
    \/ \A c \in Cats : ~Enabled(c)
    \/ ~cfg.LABEL /\ ~cfg.DASHBOARD

\* C24: the issue createDashboard updates as the dashboard issue is in no
\* category's top selection of that run.
C24_DashboardIssueNotSelected ==
  \A r \in PublishCalls :
    r.op = "update" =>
      \A c \in Cats : r.number \notin Range(Numbers(newTop[c]))

\* The nodes of all items of a repository list, in its order.
AllNodes(list) == [i \in DOMAIN list |-> ToNode(list[i])]

Fetching == pc \in {"fetchIssues", "fetchPRs"}

\* While a fetch is going on the pages consumed so far are the first
\* endCursor items; when the nothing-to-do test is reached both lists hold
\* every open item, in page order.
SnapshotComplete ==
  /\ pc = "fetchIssues" =>
       /\ issues = SubSeq(AllNodes(repoIssues), 1, endCursor)
       /\ PRs = <<>>
  /\ pc = "fetchPRs" =>
       /\ issues = AllNodes(repoIssues)
       /\ PRs = SubSeq(AllNodes(repoPRs), 1, endCursor)
  /\ pc = "check" =>
       /\ issues = AllNodes(repoIssues)
       /\ PRs = AllNodes(repoPRs)
  /\ pc \in {"rank", "initLabel", "dashboard", "createDashboard", "done"} =>
       /\ Len(PRs) = Len(repoPRs)
       /\ Len(issues) =
            Len(repoIssues)
              - (IF Request("create", 0, DASHBOARD_LABEL) \in calls THEN 1 ELSE 0)

\* Once the fetches are over, the run neither fetches again nor changes the
\* fetched lists.
NoRefetch ==
  (~Fetching /\ runs' = runs) =>
    /\ pc' \notin {"fetchIssues", "fetchPRs"}
    /\ issues' = issues
    /\ PRs' = PRs

\* C25: both fetches consume every page, page after page from the cursor of
\* the previous response up to the first page without a next page, before
\* the nothing-to-do test and any ranking; the fetched lists are the
\* concatenation of the pages and no fetch happens later in the run.
C25_FetchCompleteBeforeRanking ==
  []SnapshotComplete /\ [][NoRefetch]_vars

C25_Witness ==
  /\ pc = "rank"
  /\ PageSize < Len(issues)
  /\ issues = AllNodes(repoIssues)
  /\ PRs = AllNodes(repoPRs)
  /\ \A c \in Cats : newTop[c] = <<>>

\* The label add and label remove requests this run has issued.
LabelCalls == {r \in calls : r.op \in {"addLabels", "removeLabel"}}

\* C26: a run that follows a completed live run with labeling, all of whose
\* requests were applied, on the same open items, reaction counts and
\* configuration, issues no label add and no label remove request.
C26_SecondRunIssuesNoLabelCall ==
  (previous /\ cfg.LABEL /\ ~cfg.DRY_RUN) => LabelCalls = {}

\* C27: for every category labelTopIssues has gone through, no label remove
\* request names an item of the category's new top list, also when no
\* fetched item carried the top label, and the label add requests name
\* exactly the new top items whose fetched labels lack the top label.
C27_NoRemoveForSelected ==
  \A c \in labelled :
    LET selected == Range(Numbers(newTop[c]))
        lacking == {newTop[c][i].number :
                      i \in {k \in DOMAIN newTop[c] :
                               TopLabel(c) \notin Range(newTop[c][k].labels)}}
    IN /\ \A r \in calls :
            (r.op = "removeLabel" /\ r.label = TopLabel(c)) => r.number \notin selected
       /\ {r.number : r \in {q \in calls : q.op = "addLabels" /\ q.label = TopLabel(c)}}
            = lacking

C27_Witness ==
  \E c \in labelled :
    /\ OldTop(c) = <<>>
    /\ newTop[c] # <<>>
    /\ toPrune[c] = newTop[c]
    /\ Request("addLabels", newTop[c][1].number, TopLabel(c)) \in calls
    /\ \A r \in calls : r.op # "removeLabel"

\* A label request of a live process is answered with an error in this step.
RequestRejected(r) ==
  /\ r \in inflight
  /\ r \notin inflight'
  /\ pc # "failed"
  /\ failure' = "request"

\* C28: when a label add or a label remove request fails, the run is marked
\* failed with a message that names the item and the label.
C28_LabelFailureReported ==
  [][\A r \in inflight :
       RequestRejected(r) =>
         \E m \in messages' : m.number = r.number /\ m.label = r.label]_vars

\* The categories the run has ranked so far.
Ranked ==
  IF pc \in {"dashboard", "createDashboard", "done"} THEN Cats
  ELSE IF pc = "rank" THEN {CatOrder[i] : i \in 1..(cur - 1)}
  ELSE IF pc = "initLabel" THEN {CatOrder[i] : i \in 1..cur}
  ELSE {}

\* Every ranked category holds the ranking of its own candidates in the
\* fetched lists, whatever the other categories are or did.
SelectionFromSnapshotOnly ==
  \A c \in Ranked : newTop[c] = RankedFromSnapshot(c)

\* Ranking a category leaves the fetched lists as they are.
RankingKeepsSnapshot ==
  pc = "rank" => (issues' = issues /\ PRs' = PRs)

\* C29: the selection of a category is the ranking of its candidates in the
\* fetched snapshot under the configuration, independent of the categories
\* processed before it, and ranking leaves the snapshot lists and their
\* items unchanged.
C29_CategoriesIndependent ==
  []SelectionFromSnapshotOnly /\ [][RankingKeepsSnapshot]_vars

C29_Witness ==
  /\ pc = "dashboard"
  /\ newTop["issues"] # <<>>
  /\ newTop["bugs"] = newTop["issues"]
  /\ Len(issues) = 2
  /\ issues[2].number = newTop["issues"][1].number

====
